---- MODULE Spec2Model ----
(***************************************************************************)
(* Structure query modifiers: wholeResidues, includeSurroundings,          *)
(* querySelection, intersectBy, exceptBy, union, expandProperty.           *)
(* A query is evaluated against a query context (input-structure stack,    *)
(* element cursor, deadline); leaf queries are inputs of the evaluation.   *)
(***************************************************************************)
EXTENDS Integers, Sequences, FiniteSets, TLC

VARIABLES
    pc,           \* position of the evaluation
    op,           \* the combinator being evaluated
    unit1Kind,    \* kind of unit 1 of the source structure
    params,       \* radius, wholeResidues flag, property, inner query
    queryA,       \* selection the first leaf query yields
    queryB,       \* selection the second (by) leaf query yields
    sel,          \* local: inner / selection / targetSel / src
    unionBy,      \* local: unionBy / subtractBy
    sI,           \* local: index of the forEach loop
    ret,          \* local: structures accumulated by the selection builder
    indexMap,     \* local: propertyToStructureIndexMap
    builders,     \* local: builders[] of expandProperty
    result,       \* the returned selection, or NoResult
    prev,         \* result of the previous evaluation in this context
    inputStack,   \* ctx: input structures, top last
    cursorStack,  \* ctx: element cursors, current last
    timedOut,     \* ctx: the deadline has passed
    log           \* counters of the calls made by the evaluation

vars == <<pc, op, unit1Kind, params, queryA, queryB, sel, unionBy, sI, ret,
          indexMap, builders, result, prev, inputStack, cursorStack, timedOut, log>>

inputVars == <<op, unit1Kind, params, queryA, queryB>>
ctxVars == <<inputStack, cursorStack>>
expandVars == <<indexMap, builders>>

-----------------------------------------------------------------------------
(* Bounds of the model *)

\* most structures a leaf query yields
MaxSel == 2
\* most atoms in one structure yielded by a leaf query
MaxAtoms == 2
\* most structures the by query of intersectBy and exceptBy yields
MaxBy == 1

-----------------------------------------------------------------------------
(* The source structure: two units; unit 0 is atomic with residues [0,1)   *)
(* and [1,3), unit 1 has one segment [0,2) and is atomic or coarse.        *)

UnitIds == {0, 1}

Offsets(u) == IF u = 0 THEN (0 :> 0 @@ 1 :> 1 @@ 2 :> 3) ELSE (0 :> 0 @@ 1 :> 2)

ResidueCount(u) == Cardinality(DOMAIN Offsets(u)) - 1

UnitElements(u) == Offsets(u)[0] .. (Offsets(u)[ResidueCount(u)] - 1)

UnitKind(u) == IF u = 0 THEN "Atomic" ELSE unit1Kind

Atoms == UNION {{<<u, e>> : e \in UnitElements(u)} : u \in UnitIds}

\* x coordinate of an atom (y = z = 0); atoms <<0,2>> and <<1,0>> coincide
Pos(a) == IF a[1] = 0 THEN a[2] ELSE 2 + 2 * a[2]

UnitsOf(s) == {a[1] : a \in s}

ElementsOf(s, u) == {a[2] : a \in {b \in s : b[1] = u}}

-----------------------------------------------------------------------------
(* Selections *)

Singletons(source, structure) ==
    [kind |-> "singletons", source |-> source, structures |-> <<structure>>]

Sequence(source, structures) ==
    [kind |-> "sequence", source |-> source, structures |-> structures]

Empty(source) == Sequence(source, <<>>)

isSingleton(s) == s.kind = "singletons"

structureCount(s) == Len(s.structures)

Range(q) == {q[i] : i \in DOMAIN q}

unionStructure(s) == UNION Range(s.structures)

structureIntersect(a, b) == a \cap b

structureSubtract(a, b) == a \ b

\* UniqueStructuresBuilder.add / UniqueBuilder.add: keep the first of equal structures
UniqueAdd(structures, s) ==
    IF s \in Range(structures) THEN structures ELSE Append(structures, s)

RECURSIVE UniqueAddAll(_, _)
UniqueAddAll(structures, more) ==
    IF more = <<>> THEN structures
    ELSE UniqueAddAll(UniqueAdd(structures, Head(more)), Tail(more))

-----------------------------------------------------------------------------
(* Query context *)

inputStructure == inputStack[Len(inputStack)]

NoElement == [unit |-> -1, element |-> -1]

NoResult == [kind |-> "none", source |-> {}, structures |-> <<>>]

NoParams == [radius |-> 0, lookup |-> 0, wholeResidues |-> FALSE, property |-> "none",
             inner |-> "none"]

ZeroLog == [query |-> 0, by |-> 0, push |-> 0, pop |-> 0, lookup |-> 0, iter |-> 0,
            late |-> FALSE, inner |-> <<>>]

Bump(field) == [log EXCEPT ![field] = @ + 1]

-----------------------------------------------------------------------------
(* Inputs of an evaluation *)

Structures == {s \in SUBSET Atoms : Cardinality(s) <= MaxAtoms}

InjectiveSeqs(S, n) ==
    {q \in [1 .. n -> S] : \A i, j \in 1 .. n : i # j => q[i] # q[j]}

SelectionsUpTo(max) ==
    {Singletons(Atoms, s) : s \in Structures}
    \cup {Sequence(Atoms, q) : q \in UNION {InjectiveSeqs(Structures, n) : n \in 0 .. max}}

LeafSelections == SelectionsUpTo(MaxSel)

BySelections == SelectionsUpTo(MaxBy)

-----------------------------------------------------------------------------
(* getWholeResidues *)

\* Segmentation: index of the residue segment holding element e of unit u
ResidueIndex(u, e) ==
    CHOOSE r \in 0 .. (ResidueCount(u) - 1) : Offsets(u)[r] <= e /\ e < Offsets(u)[r + 1]

\* Segmentation.transientSegments: the segments that hold some of the elements
TransientSegments(u, elements) == {ResidueIndex(u, e) : e \in elements}

ResidueRange(u, rI) == Offsets(u)[rI] .. (Offsets(u)[rI + 1] - 1)

\* as getWholeResidues, the loop over a residue running to j <= offsets[rI + 1]
getWholeResiduesInclusive(source, structure) ==
    UNION {
        IF UnitKind(u) # "Atomic"
        THEN {<<u, e>> : e \in ElementsOf(structure, u)}
        ELSE {<<u, j>> : j \in UnitElements(u) \cap
                                UNION {Offsets(u)[rI] .. Offsets(u)[rI + 1] :
                                        rI \in TransientSegments(u, ElementsOf(structure, u))}}
        : u \in UnitsOf(structure)}

\* as getWholeResidues, without the test of the unit's kind
getWholeResiduesAnyKind(source, structure) ==
    UNION {
        {<<u, j>> : j \in UNION {ResidueRange(u, rI) :
                                    rI \in TransientSegments(u, ElementsOf(structure, u))}}
        : u \in UnitsOf(structure)}

getWholeResidues(source, structure) ==
    UNION {
        IF UnitKind(u) # "Atomic"
        THEN {<<u, e>> : e \in ElementsOf(structure, u)}
        ELSE {<<u, j>> : j \in UNION {ResidueRange(u, rI) :
                                        rI \in TransientSegments(u, ElementsOf(structure, u))}}
        : u \in UnitsOf(structure)}

\* ctx.throwIfTimedOut() is reached after each atomic unit only
getWholeResiduesThrows(structure) ==
    timedOut /\ \E u \in UnitsOf(structure) : UnitKind(u) = "Atomic"

-----------------------------------------------------------------------------
(* getIncludeSurroundings *)

Abs(n) == IF n < 0 THEN -n ELSE n

\* lookup3d.findIntoBuilder for a radius >= 0: every atom of the source within r
findIntoBuilder(source, x, r) == {a \in source : Abs(Pos(a) - x) <= r}

\* The radius the spatial index acts on. For a radius < 0, which it does not
\* define, a build either finds nothing or compares squared distances, which
\* is a lookup with the radius -r.
UndefinedLookups(r) == IF r < 0 THEN {r, -r} ELSE {r}

\* as getIncludeSurroundings, the loop over the elements starting at i = 1
getIncludeSurroundingsFromSecond(source, structure, p, r) ==
    LET rest(u) == {<<u, e>> : e \in {e \in ElementsOf(structure, u) :
                                        \E f \in ElementsOf(structure, u) : f < e}}
        built == UNION {findIntoBuilder(source, Pos(a), r) :
                            a \in UNION {rest(u) : u \in UnitsOf(structure)}}
    IN  IF p.wholeResidues THEN getWholeResidues(source, built) ELSE built

\* r is the radius the spatial index acts on, p.lookup
getIncludeSurroundings(source, structure, p, r) ==
    LET built == UNION {findIntoBuilder(source, Pos(a), r) : a \in structure}
    IN  IF p.wholeResidues THEN getWholeResidues(source, built) ELSE built

\* ctx.throwIfTimedOut() is reached after each unit
getIncludeSurroundingsThrows(structure) == timedOut /\ structure # {}

-----------------------------------------------------------------------------
(* Evaluation *)

Ops == {"wholeResidues", "includeSurroundings", "querySelection", "intersectBy",
        "exceptBy", "union", "expandProperty"}

Radii == {-1, 0, 1}

Properties == {"unit", "residue", "element"}

InnerQueries == {"all", "atoms", "none"}

Init ==
    /\ pc = "idle"
    /\ op = "none"
    /\ unit1Kind = "Atomic"
    /\ params = NoParams
    /\ queryA = NoResult
    /\ queryB = NoResult
    /\ sel = NoResult
    /\ unionBy = {}
    /\ sI = 0
    /\ ret = <<>>
    /\ indexMap = <<>>
    /\ builders = <<>>
    /\ result = NoResult
    /\ prev = NoResult
    /\ inputStack = <<Atoms>>
    /\ cursorStack = <<NoElement>>
    /\ timedOut = FALSE
    /\ log = ZeroLog

\* A context is created (its deadline possibly already in the past) and a
\* combinator over leaf queries, the first yielding one of the selections
\* given, is evaluated in it.
CallWith(ops, selections) ==
    /\ pc = "idle"
    /\ \E o \in ops :
        /\ op' = o
        /\ queryA' \in selections
        /\ queryB' \in (IF o \in {"intersectBy", "exceptBy"} THEN BySelections ELSE {NoResult})
        /\ \E r \in (IF o = "includeSurroundings" THEN Radii ELSE {0}),
              w \in (IF o = "includeSurroundings" THEN BOOLEAN ELSE {FALSE}),
              f \in (IF o = "expandProperty" THEN Properties ELSE {"none"}),
              q \in (IF o = "querySelection" THEN InnerQueries ELSE {"none"}) :
            /\ \E l \in UndefinedLookups(r) :
                params' = [radius |-> r, lookup |-> l, wholeResidues |-> w, property |-> f,
                           inner |-> q]
            \* the kind of unit 1 is read by getWholeResidues only
            /\ unit1Kind' \in (IF o = "wholeResidues" \/ w
                                THEN {"Atomic", "Coarse"} ELSE {"Atomic"})
    /\ \E late \in BOOLEAN :
        /\ timedOut' = late
        /\ log' = [log EXCEPT !.late = late]
    /\ pc' = "query"
    /\ UNCHANGED <<sel, unionBy, sI, ret, indexMap, builders, result, prev,
                   inputStack, cursorStack>>

Call(ops) == CallWith(ops, LeafSelections)

\* The wall clock passes the deadline of the context.
Tick ==
    /\ pc \notin {"idle", "done", "timeout", "error"}
    /\ ~timedOut
    /\ timedOut' = TRUE
    /\ UNCHANGED <<pc, inputVars, sel, unionBy, sI, ret, expandVars, result, prev,
                   ctxVars, log>>

\* query(ctx) of a leaf query: yields its selection, or raises the timeout
QueryReturns ==
    /\ sel' = queryA
    /\ log' = Bump("query")
    /\ sI' = 0
    /\ ret' = <<>>

Throw ==
    /\ pc' = "timeout"
    /\ UNCHANGED <<inputVars, sel, unionBy, sI, ret, expandVars, result, prev,
                   ctxVars, timedOut, log>>

Return(selection) ==
    /\ pc' = "done"
    /\ result' = selection

-----------------------------------------------------------------------------
(* wholeResidues *)

WholeResiduesQuery ==
    /\ pc = "query" /\ op = "wholeResidues"
    /\ \/ /\ QueryReturns
          /\ pc' = "body"
          /\ UNCHANGED <<inputVars, unionBy, expandVars, result, prev, ctxVars, timedOut>>
       \/ timedOut /\ Throw

WholeResiduesSingleton ==
    /\ pc = "body" /\ op = "wholeResidues"
    /\ isSingleton(sel)
    /\ \/ /\ ~getWholeResiduesThrows(sel.structures[1])
          /\ Return(Singletons(inputStructure,
                               getWholeResidues(inputStructure, sel.structures[1])))
          /\ log' = Bump("iter")
          /\ UNCHANGED <<inputVars, sel, unionBy, sI, ret, expandVars, prev, ctxVars, timedOut>>
       \/ getWholeResiduesThrows(sel.structures[1]) /\ Throw

WholeResiduesAdd ==
    /\ pc = "body" /\ op = "wholeResidues"
    /\ ~isSingleton(sel)
    /\ sI < Len(sel.structures)
    /\ LET s == sel.structures[sI + 1] IN
       \/ /\ ~getWholeResiduesThrows(s)
          /\ ret' = UniqueAdd(ret, getWholeResidues(inputStructure, s))
          /\ sI' = sI + 1
          /\ log' = Bump("iter")
          /\ UNCHANGED <<pc, inputVars, sel, unionBy, expandVars, result, prev, ctxVars, timedOut>>
       \/ getWholeResiduesThrows(s) /\ Throw

WholeResiduesReturn ==
    /\ pc = "body" /\ op = "wholeResidues"
    /\ ~isSingleton(sel)
    /\ sI = Len(sel.structures)
    /\ Return(Sequence(inputStructure, ret))
    /\ UNCHANGED <<inputVars, sel, unionBy, sI, ret, expandVars, prev, ctxVars, timedOut, log>>

\* wholeResidues(wholeResidues(q)): the outer combinator receives the
\* selection the inner one returned
WholeResiduesOuter ==
    /\ pc = "done" /\ op = "wholeResidues"
    /\ prev = NoResult
    /\ prev' = result
    /\ sel' = result
    /\ result' = NoResult
    /\ sI' = 0
    /\ ret' = <<>>
    /\ pc' = "body"
    /\ UNCHANGED <<inputVars, unionBy, expandVars, ctxVars, timedOut, log>>

-----------------------------------------------------------------------------
(* includeSurroundings *)

IncludeSurroundingsQuery ==
    /\ pc = "query" /\ op = "includeSurroundings"
    /\ \/ /\ QueryReturns
          /\ pc' = "body"
          /\ UNCHANGED <<inputVars, unionBy, expandVars, result, prev, ctxVars, timedOut>>
       \/ timedOut /\ Throw

Lookups(s) == [log EXCEPT !.lookup = @ + Cardinality(s), !.iter = @ + 1]

IncludeSurroundingsSingleton ==
    /\ pc = "body" /\ op = "includeSurroundings"
    /\ isSingleton(sel)
    /\ LET s == sel.structures[1] IN
       \/ /\ ~getIncludeSurroundingsThrows(s)
          /\ LET surr == getIncludeSurroundings(inputStructure, s, params, params.lookup) IN
                /\ ~(params.wholeResidues /\ getWholeResiduesThrows(surr))
                /\ Return(Singletons(inputStructure, surr))
          /\ log' = Lookups(s)
          /\ UNCHANGED <<inputVars, sel, unionBy, sI, ret, expandVars, prev, ctxVars, timedOut>>
       \/ getIncludeSurroundingsThrows(s) /\ Throw

IncludeSurroundingsAdd ==
    /\ pc = "body" /\ op = "includeSurroundings"
    /\ ~isSingleton(sel)
    /\ sI < Len(sel.structures)
    /\ LET s == sel.structures[sI + 1] IN
       \/ /\ ~getIncludeSurroundingsThrows(s)
          /\ LET surr == getIncludeSurroundings(inputStructure, s, params, params.lookup) IN
                /\ ~(params.wholeResidues /\ getWholeResiduesThrows(surr))
                /\ ret' = UniqueAdd(ret, surr)
          /\ sI' = sI + 1
          /\ log' = Lookups(s)
          /\ UNCHANGED <<pc, inputVars, sel, unionBy, expandVars, result, prev, ctxVars, timedOut>>
       \/ getIncludeSurroundingsThrows(s) /\ Throw

IncludeSurroundingsReturn ==
    /\ pc = "body" /\ op = "includeSurroundings"
    /\ ~isSingleton(sel)
    /\ sI = Len(sel.structures)
    /\ Return(Sequence(inputStructure, ret))
    /\ UNCHANGED <<inputVars, sel, unionBy, sI, ret, expandVars, prev, ctxVars, timedOut, log>>


-----------------------------------------------------------------------------
(* querySelection *)

\* stride of the timeout check of querySelection and expandProperty
StrideInner == 10
\* stride of the timeout check of intersectBy and exceptBy
StrideSet == 50

AtomLess(a, b) == a[1] < b[1] \/ (a[1] = b[1] /\ a[2] < b[2])

RECURSIVE SortedAtoms(_)
SortedAtoms(s) ==
    IF s = {} THEN <<>>
    ELSE LET a == CHOOSE x \in s : \A y \in s \ {x} : AtomLess(x, y)
         IN  <<a>> \o SortedAtoms(s \ {a})

\* The inner leaf queries: the whole input structure, each of its atoms, nothing
InnerQuery(name, input) ==
    CASE name = "all" -> Singletons(input, input)
      [] name = "atoms" -> Sequence(input, [i \in 1 .. Cardinality(input) |-> {SortedAtoms(input)[i]}])
      [] OTHER -> Empty(input)

QuerySelectionQuery ==
    /\ pc = "query" /\ op = "querySelection"
    /\ \/ /\ QueryReturns
          /\ IF structureCount(queryA) = 0
             THEN Return(queryA)
             ELSE pc' = "body" /\ result' = result
          /\ UNCHANGED <<inputVars, unionBy, expandVars, prev, ctxVars, timedOut>>
       \/ timedOut /\ Throw

\* as QuerySelectionPush, the first structure of the selection pushed each time
QuerySelectionPushFirst ==
    /\ pc = "body" /\ op = "querySelection"
    /\ sI < Len(sel.structures)
    /\ inputStack' = Append(inputStack, sel.structures[1])
    /\ log' = Bump("push")
    /\ pc' = "inner"
    /\ UNCHANGED <<inputVars, sel, unionBy, sI, ret, expandVars, result, prev,
                   cursorStack, timedOut>>

QuerySelectionPush ==
    /\ pc = "body" /\ op = "querySelection"
    /\ sI < Len(sel.structures)
    /\ inputStack' = Append(inputStack, sel.structures[sI + 1])
    /\ log' = Bump("push")
    /\ pc' = "inner"
    /\ UNCHANGED <<inputVars, sel, unionBy, sI, ret, expandVars, result, prev,
                   cursorStack, timedOut>>

\* as QuerySelectionInner, without popInputStructure
QuerySelectionInnerNoPop ==
    /\ pc = "inner" /\ op = "querySelection"
    /\ \/ /\ ret' = UniqueAddAll(ret, InnerQuery(params.inner, inputStructure).structures)
          /\ inputStack' = inputStack
          /\ log' = [log EXCEPT !.by = @ + 1, !.iter = @ + 1,
                                  !.inner = Append(@, inputStructure)]
          /\ IF sI % StrideInner = 0 /\ timedOut
             THEN pc' = "timeout" /\ sI' = sI
             ELSE pc' = "body" /\ sI' = sI + 1
          /\ UNCHANGED <<inputVars, sel, unionBy, expandVars, result, prev,
                         cursorStack, timedOut>>
       \/ timedOut /\ Throw

QuerySelectionInner ==
    /\ pc = "inner" /\ op = "querySelection"
    /\ \/ /\ ret' = UniqueAddAll(ret, InnerQuery(params.inner, inputStructure).structures)
          /\ inputStack' = SubSeq(inputStack, 1, Len(inputStack) - 1)
          /\ log' = [log EXCEPT !.by = @ + 1, !.pop = @ + 1, !.iter = @ + 1,
                                  !.inner = Append(@, inputStructure)]
          /\ IF sI % StrideInner = 0 /\ timedOut
             THEN pc' = "timeout" /\ sI' = sI
             ELSE pc' = "body" /\ sI' = sI + 1
          /\ UNCHANGED <<inputVars, sel, unionBy, expandVars, result, prev,
                         cursorStack, timedOut>>
       \/ timedOut /\ Throw

QuerySelectionReturn ==
    /\ pc = "body" /\ op = "querySelection"
    /\ sI = Len(sel.structures)
    /\ Return(Sequence(inputStructure, ret))
    /\ UNCHANGED <<inputVars, sel, unionBy, sI, ret, expandVars, prev, ctxVars, timedOut, log>>

-----------------------------------------------------------------------------
(* intersectBy *)

\* as IntersectByQuery, without the return on an empty selection
IntersectByQueryNoReturn ==
    /\ pc = "query" /\ op = "intersectBy"
    /\ \/ /\ QueryReturns
          /\ pc' = "body"
          /\ UNCHANGED <<inputVars, unionBy, expandVars, result, prev, ctxVars, timedOut>>
       \/ timedOut /\ Throw

IntersectByQuery ==
    /\ pc = "query" /\ op = "intersectBy"
    /\ \/ /\ QueryReturns
          /\ IF structureCount(queryA) = 0
             THEN Return(queryA)
             ELSE pc' = "body" /\ result' = result
          /\ UNCHANGED <<inputVars, unionBy, expandVars, prev, ctxVars, timedOut>>
       \/ timedOut /\ Throw

IntersectByBy ==
    /\ pc = "body" /\ op = "intersectBy"
    /\ \/ /\ log' = Bump("by")
          /\ IF structureCount(queryB) = 0
             THEN Return(Empty(inputStructure)) /\ unionBy' = unionBy
             ELSE pc' = "loop" /\ unionBy' = unionStructure(queryB) /\ result' = result
          /\ UNCHANGED <<inputVars, sel, sI, ret, expandVars, prev, ctxVars, timedOut>>
       \/ timedOut /\ Throw

IntersectByAdd(structures, by, s) ==
    LET ii == structureIntersect(by, s)
    IN  IF ii # {} THEN UniqueAdd(structures, ii) ELSE structures

IntersectByStep ==
    /\ pc = "loop" /\ op = "intersectBy"
    /\ sI < Len(sel.structures)
    /\ ret' = IntersectByAdd(ret, unionBy, sel.structures[sI + 1])
    /\ log' = Bump("iter")
    /\ IF sI % StrideSet = 0 /\ timedOut
       THEN pc' = "timeout" /\ sI' = sI
       ELSE pc' = pc /\ sI' = sI + 1
    /\ UNCHANGED <<inputVars, sel, unionBy, expandVars, result, prev, ctxVars, timedOut>>

IntersectByReturn ==
    /\ pc = "loop" /\ op = "intersectBy"
    /\ sI = Len(sel.structures)
    /\ Return(Sequence(inputStructure, ret))
    /\ UNCHANGED <<inputVars, sel, unionBy, sI, ret, expandVars, prev, ctxVars, timedOut, log>>

-----------------------------------------------------------------------------
(* exceptBy *)

ExceptByQuery ==
    /\ pc = "query" /\ op = "exceptBy"
    /\ \/ /\ QueryReturns
          /\ IF structureCount(queryA) = 0
             THEN Return(queryA)
             ELSE pc' = "body" /\ result' = result
          /\ UNCHANGED <<inputVars, unionBy, expandVars, prev, ctxVars, timedOut>>
       \/ timedOut /\ Throw

\* as ExceptByBy, the selection of query returned when by yields no structure
ExceptByByKeepsSelection ==
    /\ pc = "body" /\ op = "exceptBy"
    /\ \/ /\ log' = Bump("by")
          /\ IF structureCount(queryB) = 0
             THEN Return(sel) /\ unionBy' = unionBy
             ELSE pc' = "loop" /\ unionBy' = unionStructure(queryB) /\ result' = result
          /\ UNCHANGED <<inputVars, sel, sI, ret, expandVars, prev, ctxVars, timedOut>>
       \/ timedOut /\ Throw

ExceptByBy ==
    /\ pc = "body" /\ op = "exceptBy"
    /\ \/ /\ log' = Bump("by")
          /\ IF structureCount(queryB) = 0
             THEN Return(Empty(inputStructure)) /\ unionBy' = unionBy
             ELSE pc' = "loop" /\ unionBy' = unionStructure(queryB) /\ result' = result
          /\ UNCHANGED <<inputVars, sel, sI, ret, expandVars, prev, ctxVars, timedOut>>
       \/ timedOut /\ Throw

\* as ExceptByAdd, the arguments of structureSubtract exchanged
ExceptByAddSwapped(structures, by, s) ==
    LET diff == structureSubtract(by, s)
    IN  IF diff # {} THEN UniqueAdd(structures, diff) ELSE structures

ExceptByAdd(structures, by, s) ==
    LET diff == structureSubtract(s, by)
    IN  IF diff # {} THEN UniqueAdd(structures, diff) ELSE structures

ExceptByStep ==
    /\ pc = "loop" /\ op = "exceptBy"
    /\ sI < Len(sel.structures)
    /\ ret' = ExceptByAdd(ret, unionBy, sel.structures[sI + 1])
    /\ log' = Bump("iter")
    /\ IF sI % StrideSet = 0 /\ timedOut
       THEN pc' = "timeout" /\ sI' = sI
       ELSE pc' = pc /\ sI' = sI + 1
    /\ UNCHANGED <<inputVars, sel, unionBy, expandVars, result, prev, ctxVars, timedOut>>

ExceptByReturn ==
    /\ pc = "loop" /\ op = "exceptBy"
    /\ sI = Len(sel.structures)
    /\ Return(Sequence(inputStructure, ret))
    /\ UNCHANGED <<inputVars, sel, unionBy, sI, ret, expandVars, prev, ctxVars, timedOut, log>>

\* exceptBy(A, B) and then intersectBy(A, B), over the same leaf queries in
\* the same context
ExceptByThenIntersectBy ==
    /\ pc = "done" /\ op = "exceptBy"
    /\ prev = NoResult
    /\ prev' = result
    /\ result' = NoResult
    /\ op' = "intersectBy"
    /\ pc' = "query"
    /\ log' = [ZeroLog EXCEPT !.late = log.late]
    /\ UNCHANGED <<unit1Kind, params, queryA, queryB, sel, unionBy, sI, ret, expandVars,
                   ctxVars, timedOut>>

-----------------------------------------------------------------------------
(* union *)

\* as Union, the structures of the query added one by one, not merged
UnionEach ==
    /\ pc = "query" /\ op = "union"
    /\ \/ /\ QueryReturns
          /\ Return(Sequence(inputStructure, queryA.structures))
          /\ UNCHANGED <<inputVars, unionBy, expandVars, prev, ctxVars, timedOut>>
       \/ timedOut /\ Throw

Union ==
    /\ pc = "query" /\ op = "union"
    /\ \/ /\ QueryReturns
          /\ Return(Sequence(inputStructure, <<unionStructure(queryA)>>))
          /\ UNCHANGED <<inputVars, unionBy, expandVars, prev, ctxVars, timedOut>>
       \/ timedOut /\ Throw

-----------------------------------------------------------------------------
(* expandProperty *)

\* property(ctx): a value of the atom under the cursor
Property(name, a) ==
    CASE name = "unit" -> a[1]
      [] name = "residue" -> 10 * a[1] + ResidueIndex(a[1], a[2])
      [] OTHER -> a[2]

\* UniqueArray.add(arr, sI, sI)
UniqueArrayAdd(arr, i) == IF i \in Range(arr) THEN arr ELSE Append(arr, i)

\* first pass over structure s, the index-th of the selection (lines 176-190)
ClaimProperties(map, name, s, index) ==
    LET claimed == {Property(name, a) : a \in s}
    IN  [p \in DOMAIN map \cup claimed |->
            IF p \notin claimed THEN map[p]
            ELSE IF p \in DOMAIN map THEN UniqueArrayAdd(map[p], index)
            ELSE <<index>>]

\* the cursor after a pass over the atoms of s
CursorAfter(cursor, s) ==
    IF s = {} THEN cursor
    ELSE LET a == SortedAtoms(s)[Cardinality(s)]
         IN  [unit |-> a[1], element |-> a[2]]

SetCursor(stack, cursor) == [stack EXCEPT ![Len(stack)] = cursor]

\* position of atom a in the elements array of its unit of the structure
ElementPosition(structure, a) ==
    Cardinality({e \in ElementsOf(structure, a[1]) : e < a[2]})

\* second pass (lines 196-210): the atoms of the input structure whose
\* property value was claimed
ClaimedAtoms(map, name, input) == {a \in input : Property(name, a) \in DOMAIN map}

\* indices[i] is undefined for an atom at a position past the end of indices,
\* and builders[undefined].addToUnit raises a TypeError
SecondPassFails(map, name, input) ==
    \E a \in ClaimedAtoms(map, name, input) :
        ElementPosition(input, a) >= Len(map[Property(name, a)])

\* builders[indices[i]].addToUnit(unit.id, elements[i])
SecondPass(bs, map, name, input) ==
    [b \in DOMAIN bs |->
        bs[b] \cup {a \in ClaimedAtoms(map, name, input) :
                        map[Property(name, a)][ElementPosition(input, a) + 1] = b - 1}]

ExpandPropertyQuery ==
    /\ pc = "query" /\ op = "expandProperty"
    /\ \/ /\ QueryReturns
          /\ indexMap' = <<>>
          /\ builders' = <<>>
          /\ cursorStack' = Append(cursorStack, NoElement)
          /\ pc' = "pass1"
          /\ UNCHANGED <<inputVars, unionBy, result, prev, inputStack, timedOut>>
       \/ timedOut /\ Throw

ExpandPropertyFirstPass ==
    /\ pc = "pass1" /\ op = "expandProperty"
    /\ sI < Len(sel.structures)
    /\ LET s == sel.structures[sI + 1] IN
       /\ indexMap' = ClaimProperties(indexMap, params.property, s, sI)
       /\ cursorStack' = SetCursor(cursorStack, CursorAfter(cursorStack[Len(cursorStack)], s))
    /\ builders' = Append(builders, {})
    /\ log' = Bump("iter")
    /\ IF sI % StrideInner = 0 /\ timedOut
       THEN pc' = "timeout" /\ sI' = sI
       ELSE pc' = pc /\ sI' = sI + 1
    /\ UNCHANGED <<inputVars, sel, unionBy, ret, result, prev, inputStack, timedOut>>

ExpandPropertySecondPass ==
    /\ pc = "pass1" /\ op = "expandProperty"
    /\ sI = Len(sel.structures)
    /\ IF SecondPassFails(indexMap, params.property, inputStructure)
       THEN /\ pc' = "error"
            /\ cursorStack' = SetCursor(cursorStack, CursorAfter(cursorStack[Len(cursorStack)],
                                                                 inputStructure))
            /\ UNCHANGED <<builders, ret, result>>
       ELSE /\ builders' = SecondPass(builders, indexMap, params.property, inputStructure)
            /\ cursorStack' = SubSeq(cursorStack, 1, Len(cursorStack) - 1)
            /\ ret' = UniqueAddAll(<<>>, builders')
            /\ Return(Sequence(inputStructure, ret'))
    /\ UNCHANGED <<inputVars, sel, unionBy, sI, indexMap, prev, inputStack, timedOut, log>>

-----------------------------------------------------------------------------
(* Specifications *)

ResidueOps == {"wholeResidues", "includeSurroundings"}

QueryOps == Ops \ ResidueOps

NextResidues ==
    \/ Call(ResidueOps)
    \/ Tick
    \/ WholeResiduesQuery
    \/ WholeResiduesSingleton
    \/ WholeResiduesAdd
    \/ WholeResiduesReturn
    \/ WholeResiduesOuter
    \/ IncludeSurroundingsQuery
    \/ IncludeSurroundingsSingleton
    \/ IncludeSurroundingsAdd
    \/ IncludeSurroundingsReturn

NextQuery ==
    \/ Call(QueryOps)
    \/ Tick
    \/ QuerySelectionQuery
    \/ QuerySelectionPush
    \/ QuerySelectionInner
    \/ QuerySelectionReturn
    \/ IntersectByQuery
    \/ IntersectByBy
    \/ IntersectByStep
    \/ IntersectByReturn
    \/ ExceptByQuery
    \/ ExceptByBy
    \/ ExceptByStep
    \/ ExceptByReturn
    \/ ExceptByThenIntersectBy
    \/ Union
    \/ ExpandPropertyQuery
    \/ ExpandPropertyFirstPass
    \/ ExpandPropertySecondPass

\* inner selections of expandProperty: one structure more than LeafSelections
ExpandSelections == SelectionsUpTo(MaxSel + 1)

NextExpand ==
    \/ CallWith({"expandProperty"}, ExpandSelections)
    \/ Tick
    \/ ExpandPropertyQuery
    \/ ExpandPropertyFirstPass
    \/ ExpandPropertySecondPass

\* evaluations of wholeResidues and includeSurroundings
SpecResidues == Init /\ [][NextResidues]_vars

\* evaluations of querySelection, intersectBy, exceptBy, union, expandProperty
SpecQuery == Init /\ [][NextQuery]_vars

\* evaluations of expandProperty over the longer inner selections
SpecExpand == Init /\ [][NextExpand]_vars

-----------------------------------------------------------------------------
(* Properties of wholeResidues and includeSurroundings (SpecResidues) *)

InResidue(u, r, e) == Offsets(u)[r] <= e /\ e < Offsets(u)[r + 1]

\* the atoms of the source that a residue expansion of S must hold
WholeResiduesOf(S) ==
    {a \in Atoms :
        IF UnitKind(a[1]) = "Atomic"
        THEN \E b \in S, r \in 0 .. (ResidueCount(a[1]) - 1) :
                b[1] = a[1] /\ InResidue(a[1], r, a[2]) /\ InResidue(a[1], r, b[2])
        ELSE a \in S}

\* C1: wholeResidues yields, for every structure S of the inner selection,
\* exactly the atoms of the residues of atomic units that S touches, and the
\* atoms of S in non-atomic units unchanged.
C1_WholeResiduesExact ==
    (pc = "done" /\ op = "wholeResidues") =>
        IF isSingleton(sel)
        THEN result.structures = <<WholeResiduesOf(sel.structures[1])>>
        ELSE Range(result.structures) = {WholeResiduesOf(s) : s \in Range(sel.structures)}

C1_Witness ==
    /\ pc = "done" /\ op = "wholeResidues"
    /\ unit1Kind = "Coarse"
    /\ sel.structures = <<{<<0, 1>>, <<1, 0>>}>>
    /\ result.structures = <<{<<0, 1>>, <<0, 2>>, <<1, 0>>}>>

\* C2: wholeResidues is idempotent: applied to the selection it returned, it
\* returns the same selection, in singleton and in array form.
C2_WholeResiduesIdempotent ==
    (pc = "done" /\ op = "wholeResidues" /\ prev # NoResult) => result = prev

C2_Witness ==
    /\ pc = "done" /\ op = "wholeResidues" /\ prev # NoResult
    /\ ~isSingleton(queryA)
    /\ Len(queryA.structures) = 2
    /\ Len(prev.structures) = 1
    /\ result = prev

\* C3: for a radius >= 0, includeSurroundings yields for every structure S of
\* the inner selection a structure that holds every atom of S, and every
\* structure it yields holds atoms of the source only; also with wholeResidues.
C3_SurroundingsSuperset ==
    (pc = "done" /\ op = "includeSurroundings" /\ params.radius >= 0) =>
        /\ \A t \in Range(result.structures) : t \subseteq inputStructure
        /\ IF isSingleton(sel)
           THEN sel.structures[1] \subseteq result.structures[1]
           ELSE \A s \in Range(sel.structures) :
                    \E t \in Range(result.structures) : s \subseteq t

C3_Witness ==
    /\ pc = "done" /\ op = "includeSurroundings"
    /\ params.radius = 0 /\ params.wholeResidues
    /\ isSingleton(sel)
    /\ sel.structures = <<{<<0, 1>>}>>
    /\ result.structures = <<{<<0, 1>>, <<0, 2>>}>>

\* C9: includeSurroundings with a radius < 0 is rejected at entry: it makes no
\* lookup in the spatial index and returns no selection.
C9_NegativeRadiusRejected ==
    (op = "includeSurroundings" /\ params.radius < 0) =>
        (log.lookup = 0 /\ pc # "done")

-----------------------------------------------------------------------------
(* Properties of the set operations, querySelection and expandProperty     *)
(* (SpecQuery)                                                             *)

\* C4: every structure of intersectBy(A, B) is a non-empty subset of a
\* structure of A and of the union of B; every structure of exceptBy(A, B) is
\* a non-empty subset of a structure of A that shares no atom with B.
C4_IntersectExceptSubsets ==
    /\ (pc = "done" /\ op = "intersectBy") =>
            \A t \in Range(result.structures) :
                /\ t # {}
                /\ \E s \in Range(queryA.structures) : t \subseteq s
                /\ t \subseteq UNION Range(queryB.structures)
    /\ (pc = "done" /\ op = "exceptBy") =>
            \A t \in Range(result.structures) :
                /\ t # {}
                /\ \E s \in Range(queryA.structures) : t \subseteq s
                /\ \A b \in Range(queryB.structures) : t \cap b = {}

C4_Witness ==
    /\ pc = "done" /\ op = "intersectBy" /\ prev # NoResult
    /\ Len(queryA.structures) = 2
    /\ Len(prev.structures) = 2
    /\ Len(result.structures) = 1
    /\ result.structures[1] # queryA.structures[1]
    /\ result.structures[1] # queryA.structures[2]

\* C5: partition law: the union of exceptBy(A, B) and intersectBy(A, B) holds
\* exactly the atoms of the union of A, also when B yields no structure.
C5_PartitionLaw ==
    (pc = "done" /\ op = "intersectBy" /\ prev # NoResult) =>
        unionStructure(prev) \cup unionStructure(result) = unionStructure(queryA)

\* the atoms of the input structure that share a property value with an atom of s
SharingProperty(name, input, s) ==
    {a \in input : \E b \in s : Property(name, b) = Property(name, a)}

\* C6: an atom of the input structure is in the sI-th sub-structure built by
\* expandProperty exactly if an atom of the sI-th structure of the inner
\* selection has its property value.
C6_ExpandPropertyPartition ==
    (pc = "done" /\ op = "expandProperty") =>
        \A i \in 1 .. Len(sel.structures) :
            builders[i] = SharingProperty(params.property, inputStructure, sel.structures[i])

\* C7: after an evaluation that ended with the timeout, the input-structure
\* stack and the cursor of the context are as before the evaluation.
C7_TimeoutRestoresContext ==
    pc = "timeout" => (inputStack = <<Atoms>> /\ cursorStack = <<NoElement>>)

\* a leaf selection of the most structures, over both units
LargeInput == Len(queryA.structures) = MaxSel /\ UnitsOf(unionStructure(queryA)) = UnitIds

\* C8: with the deadline in the past at the start, a combinator over a
\* multi-unit, multi-structure input returns no selection, and the timeout is
\* raised before it iterated over the whole input.
C8_LateStartTimesOut ==
    (log.late /\ LargeInput) =>
        /\ pc # "done"
        /\ pc = "timeout" => log.iter < Len(queryA.structures)

\* C10: when the first query of intersectBy, exceptBy or querySelection yields
\* no structure, the second query is never invoked, nothing is pushed on the
\* input-structure stack, and the selection returned has no structure.
C10_EmptyShortCircuit ==
    (op \in {"intersectBy", "exceptBy", "querySelection"} /\ structureCount(queryA) = 0) =>
        /\ log.by = 0
        /\ log.push = 0
        /\ inputStack = <<Atoms>>
        /\ log.query > 0 => (pc = "done" /\ structureCount(result) = 0)

C10_Witness ==
    /\ pc = "done" /\ op = "exceptBy"
    /\ log.query = 1
    /\ structureCount(queryA) = 0
    /\ structureCount(queryB) > 0
    /\ structureCount(result) = 0

-----------------------------------------------------------------------------
(* Properties of union (SpecQuery) *)

\* C11: union(query) returns a selection of exactly one structure, which holds
\* exactly the atoms of the structures that query yields (of none, when query
\* yields no structure), and it evaluates query exactly once.
C11_UnionOneStructure ==
    (pc = "done" /\ op = "union") =>
        /\ Len(result.structures) = 1
        /\ result.structures[1] =
                {a \in Atoms : \E i \in 1 .. Len(queryA.structures) : a \in queryA.structures[i]}
        /\ log.query = 1

C11_Witness ==
    /\ pc = "done" /\ op = "union"
    /\ queryA.structures = <<{<<0, 0>>, <<0, 1>>}, {<<0, 1>>, <<1, 0>>}>>
    /\ result.structures = <<{<<0, 0>>, <<0, 1>>, <<1, 0>>}>>

-----------------------------------------------------------------------------
(* Properties of the query context (SpecQuery) *)

\* C12: after an evaluation of a combinator that returned a selection, the
\* input-structure stack has the depth and the top it had before, the cursor
\* is the one of the caller, and every pushInputStructure was matched by a
\* popInputStructure.
C12_ReturnRestoresContext ==
    pc = "done" =>
        /\ inputStack = <<Atoms>>
        /\ cursorStack = <<NoElement>>
        /\ log.push = log.pop

C12_Witness ==
    /\ pc = "done" /\ op = "querySelection"
    /\ log.push = 2 /\ log.pop = 2
    /\ inputStack = <<Atoms>>
    /\ cursorStack = <<NoElement>>

-----------------------------------------------------------------------------
(* Properties of querySelection (SpecQuery) *)

\* C13: querySelection over an outer selection that is not empty evaluates the
\* inner query once per outer structure, in the order of the outer selection,
\* each time with that structure on top of the input-structure stack; the
\* selection it returns holds the structures these evaluations yielded, each
\* once, and no other, and its source is the input structure at entry.
C13_QuerySelectionPerStructure ==
    (op = "querySelection" /\ structureCount(queryA) > 0) =>
        /\ pc = "inner" => inputStructure = queryA.structures[Len(log.inner) + 1]
        /\ Len(log.inner) <= Len(queryA.structures)
        /\ \A i \in 1 .. Len(log.inner) : log.inner[i] = queryA.structures[i]
        /\ log.by = Len(log.inner)
        /\ pc = "done" =>
            /\ log.inner = queryA.structures
            /\ Range(result.structures) =
                    UNION {Range(InnerQuery(params.inner, s).structures) :
                               s \in Range(queryA.structures)}
            /\ \A i, j \in 1 .. Len(result.structures) :
                    i # j => result.structures[i] # result.structures[j]
            /\ result.source = Atoms

C13_Witness ==
    /\ pc = "done" /\ op = "querySelection"
    /\ params.inner = "atoms"
    /\ queryA.structures = <<{<<0, 0>>, <<0, 1>>}, {<<0, 1>>, <<1, 0>>}>>
    /\ log.inner = queryA.structures
    /\ result.structures = <<{<<0, 0>>}, {<<0, 1>>}, {<<1, 0>>}>>

-----------------------------------------------------------------------------
(* Properties of intersectBy and exceptBy over an empty by (SpecQuery) *)

\* C14: when query yields at least one structure and by yields none,
\* intersectBy and exceptBy both return the empty selection of the current
\* input structure (exceptBy does not return the structures of query), and by
\* is evaluated exactly once, after query.
C14_EmptyByYieldsEmpty ==
    (op \in {"intersectBy", "exceptBy"}) =>
        /\ log.by <= log.query
        /\ (pc = "done" /\ structureCount(queryA) > 0 /\ structureCount(queryB) = 0) =>
            /\ result = Empty(Atoms)
            /\ log.query = 1
            /\ log.by = 1

C14_Witness ==
    /\ pc = "done" /\ op = "exceptBy"
    /\ queryA.structures = <<{<<0, 0>>}, {<<1, 0>>}>>
    /\ structureCount(queryB) = 0
    /\ log.query = 1 /\ log.by = 1
    /\ result = Empty(Atoms)

-----------------------------------------------------------------------------
(* Properties of the result of expandProperty *)

\* C15: expandProperty returns one sub-structure per structure of the inner
\* selection: the selection returned has as many structures as the inner
\* selection, the sI-th being the one built for the sI-th inner structure,
\* also when inner structures claim the same property values or have no atom.
C15_ExpandPropertyOnePerStructure ==
    (pc = "done" /\ op = "expandProperty") =>
        /\ Len(result.structures) = Len(sel.structures)
        /\ \A i \in 1 .. Len(sel.structures) : result.structures[i] = builders[i]

====
